---- MODULE Spec2Model ----
(***************************************************************************)
(* Verification model of the sbe_ctd_proc cast file pipeline:              *)
(*   config_util.get_config_dir / get_xmlcon                               *)
(*   process.smart_copy_file / setup_processing_dir                        *)
(*   process.convert_hex_to_cnv / process_step / process_cnv               *)
(*   process.move_to_approved_dir / process_hex_file                       *)
(*                                                                         *)
(* Directories are functions from file names to contents.  A file name is  *)
(* a record [stem, ext]; the stem is a sequence of name pieces so that the *)
(* f-strings of the code ("{base}C.cnv", "{base}{ext}.cnv") are computed   *)
(* by concatenation and two names are equal only if the code builds the    *)
(* same string.                                                            *)
(***************************************************************************)
EXTENDS Integers, Sequences, FiniteSets, TLC

VARIABLES
    \* ---- get_config_dir (config_util.py) ----
    snEntries,      \* sn_config_path.iterdir(), in enumeration order
    snIsDir,        \* sn_config_path.is_dir()
    resolved,       \* outcome of the last get_config_dir call
    \* ---- setup_processing_dir (process.py) ----
    hexFile,        \* the raw capture at ctdfile.hex_path: None or Some(entry)
    procDir,        \* ctdfile.processing_dir: [exists, files]
    cfgFolder,      \* the entries of the dated config folder
    setupCall,      \* record of the last setup_processing_dir call
    \* ---- convert_hex_to_cnv / process_cnv (process.py) ----
    seq,            \* CONFIG.processing_sequence
    pc,             \* where the run is
    i,              \* process_cnv: position of the loop in the sequence
    target_file_ext,\* process_cnv: the current suffix
    cnvpath,        \* process_cnv: None (unbound) or Some(path of the last output)
    sendq,          \* the progress queue: None or Some(events put so far)
    logq,           \* the log callback: None or Some(calls made so far)
    steps,          \* history: the process_step calls of this run
    run,            \* history: how the run started and how it ended
    raised,         \* the exception the run ended with, "" when none
    stages,         \* history: the stages the run has started, in order
    \* ---- process_hex_file / move_to_approved_dir (process.py) ----
    hexInfo,        \* what parse_hex finds in the raw capture: [serial_number, cast_date]
    phf,            \* process_hex_file: its arguments and locals
    apprDir,        \* ctdfile.approved_dir: [exists, top, raw, done, psa, config]
    audit,          \* CONFIG.audit_log: [configured, entries]
    moveCall,       \* record of the last move_to_approved_dir call
    ops,            \* history: the calls made on the cast, in order
    \* ---- concurrent move_to_approved_dir calls (process.py) ----
    approvers,      \* the workers: where each is, its comment, how it ended
    \* ---- OceanDB.get_ctd_data (db.py) ----
    db              \* [ctd_data: the rows of the CTDData table, call: the last lookup]

resolverVars == <<snEntries, snIsDir, resolved>>
setupVars == <<cfgFolder, setupCall>>
cnvVars == <<seq, pc, i, target_file_ext, cnvpath, sendq, logq, steps, run, raised, stages>>
castVars == <<hexInfo, phf, apprDir, audit, moveCall, ops, approvers, db>>
vars == <<resolverVars, hexFile, procDir, setupVars, cnvVars, castVars>>

(***************************************************************************)
(* Bounds of the model                                                     *)
(***************************************************************************)
MaxFolders == 3
MaxStaged == 3
MaxCfgEntries == 3
MaxSteps == 3
MaxCalls == 2
MaxRecords == 2       \* rows of the CTDData table

(***************************************************************************)
(* Generic helpers                                                         *)
(***************************************************************************)
NoDir == [exists |-> FALSE, files |-> {}]

SubsetsUpTo(S, n) == {T \in SUBSET S : Cardinality(T) <= n}

\* Optional values (Python's None): the empty tuple, or a one-element tuple
None == <<>>
Some(x) == <<x>>

Range(s) == {s[k] : k \in DOMAIN s}

\* all sequences of pairwise different elements of S, of length <= n
DistinctSeqs(S, n) ==
    {s \in UNION {[1..m -> S] : m \in 0..n} :
        \A a, b \in DOMAIN s : a # b => s[a] # s[b]}

(***************************************************************************)
(* config_util.get_config_dir                                              *)
(***************************************************************************)
\* days of a month, as datetime.strptime("%Y%m%d") accepts them
DaysInMonth(y, m) ==
    IF m \in {4, 6, 9, 11} THEN 30
    ELSE IF m = 2 THEN (IF (y % 4 = 0 /\ y % 100 # 0) \/ y % 400 = 0 THEN 29 ELSE 28)
    ELSE 31

\* datetime.strptime(folder.name[-8:], "%Y%m%d"): tail8 is the number the last
\* eight characters spell, or -1 when they are not eight digits.  The result
\* is the date as the triple <<year, month, day>>, or a ValueError.
strptime(tail8) ==
    IF tail8 < 0 THEN [ok |-> FALSE, err |-> "ValueError"]
    ELSE LET y == tail8 \div 10000
             m == (tail8 \div 100) % 100
             d == tail8 % 100
         IN  IF y >= 1 /\ m \in 1..12 /\ d >= 1 /\ d <= DaysInMonth(y, m)
             THEN [ok |-> TRUE, date |-> <<y, m, d>>]
             ELSE [ok |-> FALSE, err |-> "ValueError"]

\* folder_date <= cast_date on datetimes (folder_date is midnight of its day)
DateLeq(a, b) ==
    \/ a[1] < b[1]
    \/ a[1] = b[1] /\ a[2] < b[2]
    \/ a[1] = b[1] /\ a[2] = b[2] /\ a[3] <= b[3]

\* the loop of get_config_dir over sn_config_path.iterdir(): k is the position
\* in the enumeration, config_folder the folder selected so far (or None)
RECURSIVE ScanFolders(_, _, _, _)
ScanFolders(entries, k, cast_date, config_folder) ==
    IF k > Len(entries)
    THEN IF config_folder = None
         THEN [ok |-> FALSE, err |-> "Exception: no config folder found"]
         ELSE [ok |-> TRUE, folder |-> config_folder[1]]
    ELSE LET folder == entries[k]
         IN  IF ~folder.is_dir
             THEN ScanFolders(entries, k + 1, cast_date, config_folder)
             ELSE LET folder_date == strptime(folder.tail8)
                  IN  IF ~folder_date.ok
                      THEN [ok |-> FALSE, err |-> "ValueError"]
                      ELSE IF DateLeq(folder_date.date, cast_date)
                           THEN ScanFolders(entries, k + 1, cast_date, Some(folder))
                           ELSE ScanFolders(entries, k + 1, cast_date, config_folder)

get_config_dir(serial_number, cast_date, sn_is_dir, entries) ==
    IF cast_date = None THEN [ok |-> FALSE, err |-> "ValueError"]
    ELSE IF serial_number = None THEN [ok |-> FALSE, err |-> "ValueError"]
    ELSE IF ~sn_is_dir THEN [ok |-> FALSE, err |-> "Exception: config directory not found"]
    ELSE ScanFolders(entries, 1, cast_date[1], None)

(***************************************************************************)
(* config_util.get_xmlcon                                                  *)
(* A folder is a set of entries [name, content, is_file]; a name is        *)
(* [stem, ext].                                                            *)
(***************************************************************************)
Glob(entries, ext) == {e \in entries : e.name.ext = ext}

get_xmlcon(config_folder) ==
    LET files == {e \in Glob(config_folder, "xmlcon") : e.is_file}
    IN  IF Cardinality(files) > 1
        THEN [ok |-> FALSE, err |-> "AssertionError: multiple .xmlcon files"]
        ELSE IF files = {}
        THEN [ok |-> FALSE, err |-> "AssertionError: No .xmlcon files"]
        ELSE [ok |-> TRUE, path |-> CHOOSE e \in files : TRUE]

(***************************************************************************)
(* process.smart_copy_file, with dst the processing directory              *)
(* files: the entries of dst.  Result: the entries of dst afterwards; the  *)
(* returned path is always dst / src.name.                                 *)
(***************************************************************************)
Exists(files, name) == \E f \in files : f.name = name

\* (mutant) the copy is made although the destination exists
smart_copy_file_overwrite(src, files) ==
    {f \in files : f.name # src.name}
        \cup {[name |-> src.name, content |-> src.content, is_file |-> TRUE]}

smart_copy_file(src, files) ==
    IF Exists(files, src.name)
    THEN files
    ELSE files \cup {[name |-> src.name, content |-> src.content, is_file |-> TRUE]}

(***************************************************************************)
(* process.setup_processing_dir                                            *)
(* dir: [exists, files]; hex: the raw capture at ctdfile.hex_path, or None *)
(* when it is no file; config_folder: None or Some(set of entries).        *)
(* Result: [ok, err, dir, xmlcon_file]; dir is the directory as the call   *)
(* leaves it, also when it raises.                                         *)
(***************************************************************************)
RECURSIVE CopyAll(_, _)
CopyAll(srcs, files) ==
    IF srcs = {} THEN files
    ELSE LET src == CHOOSE e \in srcs : TRUE
         IN  CopyAll(srcs \ {src}, smart_copy_file(src, files))

SetupFail(err, files) ==
    [ok |-> FALSE, err |-> err, dir |-> [exists |-> TRUE, files |-> files], xmlcon_file |-> None]

SetupOk(xmlcon_name, files) ==
    [ok |-> TRUE, err |-> "", dir |-> [exists |-> TRUE, files |-> files],
     xmlcon_file |-> Some(xmlcon_name)]

\* (mutant) one existing xmlcon is already taken for ambiguous
MultipleXmlcons_one(existing_xmlcons) == Cardinality(existing_xmlcons) >= 1

\* (mutant) two existing xmlcons are tolerated
MultipleXmlcons_three(existing_xmlcons) == Cardinality(existing_xmlcons) > 2

\* len(existing_xmlcons) > 1
MultipleXmlcons(existing_xmlcons) == Cardinality(existing_xmlcons) > 1

\* (mutant) the config folder's xmlcon is copied whatever the directory holds
NoExistingXmlcon_always(existing_xmlcons) == TRUE

\* len(existing_xmlcons) == 0
NoExistingXmlcon(existing_xmlcons) == existing_xmlcons = {}

\* (mutant) a directory without any psa file is accepted
HasNoPsa_never(psa_files) == FALSE

\* len(psa_files) == 0
HasNoPsa(psa_files) == psa_files = {}

setup_processing_dir(dir, hex, config_folder) ==
    \* dir.mkdir(exist_ok=True)
    LET files0 == IF dir.exists THEN dir.files ELSE {}
    IN  \* smart_copy_file(ctdfile.hex_path, dir): assert src.is_file()
        IF hex = None THEN SetupFail("AssertionError: src.is_file()", files0)
        ELSE
        LET files1 == smart_copy_file(hex[1], files0)
            existing_xmlcons == Glob(files1, "xmlcon")
        IN  IF MultipleXmlcons(existing_xmlcons)
            THEN SetupFail("AssertionError: multiple xmlcon files", files1)
            ELSE IF config_folder # None
            THEN LET psas == {e \in Glob(config_folder[1], "psa") : e.is_file}
                     files2 == CopyAll(psas, files1)
                     cfg_xmlcon == get_xmlcon(config_folder[1])
                 IN  IF NoExistingXmlcon(existing_xmlcons)
                     THEN IF ~cfg_xmlcon.ok
                          THEN SetupFail(cfg_xmlcon.err, files2)
                          ELSE SetupOk(cfg_xmlcon.path.name,
                                       smart_copy_file(cfg_xmlcon.path, files2))
                     ELSE \* an xmlcon already exists: use it; get_xmlcon's
                          \* AssertionError is caught and logged
                          SetupOk((CHOOSE e \in existing_xmlcons : TRUE).name, files2)
            ELSE IF NoExistingXmlcon(existing_xmlcons)
                 THEN SetupFail("AssertionError: no ctd config dir and no existing xmlcon files", files1)
                 ELSE IF HasNoPsa(Glob(files1, "psa"))
                 THEN SetupFail("AssertionError: No psa files", files1)
                 ELSE SetupOk((CHOOSE e \in existing_xmlcons : TRUE).name, files1)

(***************************************************************************)
(* Inputs of the resolver: what configRoot/<serial> may hold               *)
(***************************************************************************)
FolderPool ==
    { [name |-> "cfg_20200101", tail8 |-> 20200101, is_dir |-> TRUE],
      [name |-> "cfg_20210601", tail8 |-> 20210601, is_dir |-> TRUE],
      [name |-> "cfg_20220301", tail8 |-> 20220301, is_dir |-> TRUE],
      [name |-> "cfg_20211301", tail8 |-> 20211301, is_dir |-> TRUE],
      [name |-> "readme.txt",   tail8 |-> -1,       is_dir |-> FALSE] }

CastDates == { <<2019, 1, 1>>, <<2021, 6, 1>>, <<2021, 12, 1>>, <<2022, 12, 1>> }

NotCalled == [called |-> FALSE]

InitResolver ==
    /\ snEntries \in DistinctSeqs(FolderPool, MaxFolders)
    /\ snIsDir \in BOOLEAN
    /\ resolved = NotCalled

IdleSetup ==
    /\ cfgFolder = {}
    /\ setupCall = NotCalled

NoRun == [converted |-> FALSE, start |-> NoDir]

IdleCnv ==
    /\ seq = <<>>
    /\ pc = "idle"
    /\ i = 0
    /\ target_file_ext = <<>>
    /\ cnvpath = None
    /\ sendq = None
    /\ logq = None
    /\ steps = <<>>
    /\ run = NoRun
    /\ raised = ""
    /\ stages = <<>>

NoApproved == [exists |-> FALSE, top |-> {}, raw |-> {}, done |-> {}, psa |-> {}, config |-> {}]

NoCall == [active |-> FALSE]

IdleCast ==
    /\ hexInfo = [serial_number |-> None, cast_date |-> None]
    /\ phf = NoCall
    /\ apprDir = NoApproved
    /\ audit = [configured |-> FALSE, entries |-> <<>>]
    /\ moveCall = NotCalled
    /\ ops = <<>>
    /\ approvers = NotCalled
    /\ db = NotCalled

\* a call get_config_dir(serial_number, cast_date)
ResolveCall ==
    /\ \E serial_number \in {None, Some("SN1")}, cast_date \in {None} \cup {Some(d) : d \in CastDates} :
          resolved' = [called |-> TRUE, serial_number |-> serial_number, cast_date |-> cast_date,
                       result |-> get_config_dir(serial_number, cast_date, snIsDir, snEntries)]
    /\ UNCHANGED <<snEntries, snIsDir, hexFile, procDir, setupVars, cnvVars, castVars>>

InitSpecResolver ==
    InitResolver /\ hexFile = None /\ procDir = NoDir /\ IdleSetup /\ IdleCnv /\ IdleCast

SpecResolver == InitSpecResolver /\ [][ResolveCall]_vars

(***************************************************************************)
(* Inputs of directory setup                                               *)
(***************************************************************************)
base_file_name == "WQN015"

File(stem, ext, content) ==
    [name |-> [stem |-> stem, ext |-> ext], content |-> content, is_file |-> TRUE]

NotAFile(stem, ext) ==
    [name |-> [stem |-> stem, ext |-> ext], content |-> <<"dir">>, is_file |-> FALSE]

\* the raw capture <raw_dir>/<base>.hex
RawHex == File(<<base_file_name>>, "hex", <<"raw">>)

\* what an existing processing directory may already hold: files of an earlier
\* run or staged by hand, with contents that differ from the sources
StagedPool ==
    { File(<<base_file_name>>, "hex", <<"old">>),
      File(<<"Filter">>, "psa", <<"old">>),
      File(<<"A">>, "xmlcon", <<"old">>),
      File(<<"B">>, "xmlcon", <<"old">>) }

\* what a config folder may hold
CfgPool ==
    { File(<<"Filter">>, "psa", <<"cfg">>),
      File(<<"DatCnv">>, "psa", <<"cfg">>),
      NotAFile(<<"Extra">>, "psa"),
      File(<<"A">>, "xmlcon", <<"cfg">>),
      File(<<"C">>, "xmlcon", <<"cfg">>) }

InitSetup ==
    /\ hexFile \in {None, Some(RawHex)}
    /\ procDir \in {NoDir} \cup {[exists |-> TRUE, files |-> F] : F \in SubsetsUpTo(StagedPool, MaxStaged)}
    /\ cfgFolder \in SubsetsUpTo(CfgPool, MaxCfgEntries)
    /\ setupCall = NotCalled

IdleResolver ==
    /\ snEntries = <<>>
    /\ snIsDir = FALSE
    /\ resolved = NotCalled

\* a call setup_processing_dir(ctdfile, config_folder)
SetupCall ==
    /\ \E config_folder \in {None, Some(cfgFolder)} :
          LET r == setup_processing_dir(procDir, hexFile, config_folder)
          IN  /\ procDir' = r.dir
              /\ setupCall' = [called |-> TRUE, config_folder |-> config_folder,
                                before |-> procDir, ok |-> r.ok, err |-> r.err,
                                xmlcon_file |-> r.xmlcon_file,
                                repeat |-> /\ setupCall.called
                                           /\ setupCall.ok
                                           /\ setupCall.config_folder = config_folder]
    /\ UNCHANGED <<resolverVars, hexFile, cfgFolder, cnvVars, castVars>>

InitSpecSetup == InitSetup /\ IdleResolver /\ IdleCnv /\ IdleCast

SpecSetup == InitSpecSetup /\ [][SetupCall]_vars

(***************************************************************************)
(* convert_hex_to_cnv, process_step, process_cnv                           *)
(***************************************************************************)
\* check_processing_sequence's default steps and an unknown function; the
\* append codes are single characters
StepPool ==
    { [function |-> "dat_cnv",   psa_file |-> "DatCnv",   append |-> "C"],
      [function |-> "filter",    psa_file |-> "Filter",   append |-> "F"],
      [function |-> "align_ctd", psa_file |-> "AlignCTD", append |-> "A"],
      [function |-> "bogus",     psa_file |-> "Bogus",    append |-> "X"] }

allowed_func_names ==
    {"dat_cnv", "filter", "align_ctd", "cell_thermal_mass", "loop_edit", "wild_edit",
     "derive", "bin_avg", "derive_teos10"}

\* <processing_dir>/{file_name}{ext}.cnv, ext a sequence of characters
CnvName(ext) == [stem |-> <<base_file_name>> \o ext, ext |-> "cnv"]

\* convert_hex_to_cnv: dest_file = processing_dir / f"{base_file_name}C.cnv"
ConvertDest == CnvName(<<"C">>)

\* process_cnv: target_file_ext = '_C'
InitialTargetExt == <<"_", "C">>

\* process_cnv: result_file_ext = f"{target_file_ext}{append}"
ResultExt(target, append) == Append(target, append)

\* (mutant) the suffix is not advanced after a step
NextTargetExt_stuck(target, result) == target

\* process_cnv: target_file_ext = result_file_ext
NextTargetExt(target, result) == result

\* open(path, "w") and write: the file is created or replaced
WriteFile(files, name, content) ==
    {f \in files : f.name # name} \cup {[name |-> name, content |-> content, is_file |-> TRUE]}

ContentOf(files, name) == (CHOOSE f \in files : f.name = name).content

\* the external tool: the output text of `function` on the input text
Transform(function, content) == Append(content, function)

Put(q, event) == IF q = None THEN q ELSE Some(Append(q[1], event))

\* what the directory may hold when the pipeline starts: the copy of the raw
\* capture, and files of an earlier run
CnvStagedPool ==
    { File(<<base_file_name, "_", "C">>, "cnv", <<"raw", "dat_cnv">>),
      File(<<base_file_name, "_", "C", "F">>, "cnv", <<"old">>),
      File(<<base_file_name, "C">>, "cnv", <<"old">>) }

InitCnv ==
    /\ seq \in UNION {[1..n -> StepPool] : n \in 0..MaxSteps}
    /\ hexFile = Some(RawHex)
    /\ procDir \in {NoDir} \cup {[exists |-> TRUE, files |-> {RawHex} \cup F] :
                                   F \in SubsetsUpTo(CnvStagedPool, MaxStaged)}
    /\ pc = "ready"
    /\ i = 0
    /\ target_file_ext = <<>>
    /\ cnvpath = None
    /\ sendq \in {None, Some(<<>>)}
    /\ logq \in {None, Some(<<>>)}
    /\ steps = <<>>
    /\ run = [converted |-> FALSE, start |-> procDir]
    /\ raised = ""
    /\ stages = <<>>

Raise(exc) == pc' = "raised" /\ raised' = exc

\* convert_hex_to_cnv returns: the output of dat_cnv is written to ConvertDest
ConvertHexToCnv ==
    /\ pc = "ready"
    /\ hexFile # None /\ procDir.exists
    /\ procDir' = [procDir EXCEPT !.files =
                      WriteFile(@, ConvertDest, Transform("dat_cnv", hexFile[1].content))]
    /\ pc' = "converted"
    /\ run' = [run EXCEPT !.converted = TRUE]
    /\ stages' = Append(stages, "convert")
    /\ UNCHANGED <<resolverVars, castVars, hexFile, setupVars, seq, i, target_file_ext, cnvpath,
                   sendq, logq, steps, raised>>

\* convert_hex_to_cnv raises: the raw capture cannot be opened, dat_cnv fails,
\* or the destination cannot be written (a partial file may be left)
ConvertFails ==
    /\ pc = "ready"
    /\ \/ hexFile = None /\ Raise("FileNotFoundError") /\ UNCHANGED procDir
       \/ hexFile # None /\ Raise("dat_cnv failed") /\ UNCHANGED procDir
       \/ hexFile # None /\ Raise("IOError") /\
            \/ UNCHANGED procDir
            \/ procDir.exists /\ procDir' = [procDir EXCEPT !.files =
                                               WriteFile(@, ConvertDest, <<"corrupt">>)]
    /\ stages' = Append(stages, "convert")
    /\ UNCHANGED <<resolverVars, castVars, hexFile, setupVars, seq, i, target_file_ext, cnvpath,
                   sendq, logq, steps, run>>

\* process_cnv is entered
ProcessCnvBegin ==
    /\ pc = "converted" \/ (pc = "ready" /\ ~phf.active)
    /\ pc' = "loop"
    /\ i' = 1
    /\ target_file_ext' = InitialTargetExt
    /\ cnvpath' = None
    /\ stages' = Append(stages, "process_cnv")
    /\ UNCHANGED <<resolverVars, castVars, hexFile, procDir, setupVars, seq, sendq, logq, steps,
                   run, raised>>

InLoop == pc = "loop" /\ i <= Len(seq)

\* (mutant) the allow-list is not consulted
IsAllowed_any(f) == TRUE

\* func_name in allowed_func_names
IsAllowed(f) == f \in allowed_func_names

\* (mutant) the destination is opened for writing before the transform runs
FilesAfterFailedTransform_created(files, dest) == WriteFile(files, dest, <<>>)

\* process_step: the transform is called before dest_file is opened, so a
\* transform that raises leaves the directory as it was
FilesAfterFailedTransform(files, dest) == files

func_name == seq[i].function

\* if func_name not in allowed_func_names: raise ValueError
CnvInvalidFunction ==
    /\ InLoop
    /\ ~IsAllowed(func_name)
    /\ Raise("ValueError")
    /\ UNCHANGED <<stages, resolverVars, castVars, hexFile, procDir, setupVars, seq, i, target_file_ext,
                   cnvpath, sendq, logq, steps, run>>

\* if func_name == 'dat_cnv': continue
CnvSkipDatCnv ==
    /\ InLoop
    /\ IsAllowed(func_name) /\ func_name = "dat_cnv"
    /\ i' = i + 1
    /\ UNCHANGED <<stages, resolverVars, castVars, hexFile, procDir, setupVars, seq, pc, target_file_ext,
                   cnvpath, sendq, logq, steps, run, raised>>

IsStep == InLoop /\ IsAllowed(func_name) /\ func_name # "dat_cnv"

StepRead == CnvName(target_file_ext)
StepWrite == CnvName(ResultExt(target_file_ext, seq[i].append))

StepRecord(outcome) ==
    [index |-> i, function |-> func_name, read |-> StepRead, write |-> StepWrite,
     outcome |-> outcome, before |-> procDir.files]

\* (mutant) the event numbers the steps run so far, not the position
ProgressEvent_count == <<"process_step", func_name, Len(steps) + 1, Len(seq)>>

\* send_step(func_name, i+1): ("process_step", name, num, num_steps), with i
\* counted from 0 by enumerate
ProgressEvent == <<"process_step", func_name, i, Len(seq)>>

\* one iteration that runs process_step to its return
CnvStepOk ==
    /\ IsStep
    /\ procDir.exists /\ Exists(procDir.files, StepRead)
    /\ sendq' = Put(sendq, ProgressEvent)
    /\ procDir' = [procDir EXCEPT !.files =
                      WriteFile(@, StepWrite, Transform(func_name, ContentOf(@, StepRead)))]
    /\ cnvpath' = Some(StepWrite)
    /\ logq' = Put(logq, StepWrite)
    /\ target_file_ext' = NextTargetExt(target_file_ext, ResultExt(target_file_ext, seq[i].append))
    /\ steps' = Append(steps, StepRecord("ok"))
    /\ i' = i + 1
    /\ UNCHANGED <<stages, resolverVars, castVars, hexFile, setupVars, seq, pc, run, raised>>

\* process_step cannot open its input file
CnvStepInputMissing ==
    /\ IsStep
    /\ ~(procDir.exists /\ Exists(procDir.files, StepRead))
    /\ sendq' = Put(sendq, ProgressEvent)
    /\ steps' = Append(steps, StepRecord("input_missing"))
    /\ Raise("FileNotFoundError")
    /\ UNCHANGED <<stages, resolverVars, castVars, hexFile, procDir, setupVars, seq, i, target_file_ext,
                   cnvpath, logq, run>>

\* the transform of the step raises
CnvStepTransformFails ==
    /\ IsStep
    /\ procDir.exists /\ Exists(procDir.files, StepRead)
    /\ sendq' = Put(sendq, ProgressEvent)
    /\ procDir' = [procDir EXCEPT !.files = FilesAfterFailedTransform(@, StepWrite)]
    /\ steps' = Append(steps, StepRecord("transform_failed"))
    /\ Raise("transform failed")
    /\ UNCHANGED <<stages, resolverVars, castVars, hexFile, setupVars, seq, i, target_file_ext,
                   cnvpath, logq, run>>

\* the output cannot be written: IOError, re-raised; the destination may be
\* left partially written
CnvStepWriteFails ==
    /\ IsStep
    /\ procDir.exists /\ Exists(procDir.files, StepRead)
    /\ sendq' = Put(sendq, ProgressEvent)
    /\ \/ UNCHANGED procDir
       \/ procDir' = [procDir EXCEPT !.files = WriteFile(@, StepWrite, <<"corrupt">>)]
    /\ steps' = Append(steps, StepRecord("write_failed"))
    /\ Raise("IOError")
    /\ UNCHANGED <<stages, resolverVars, castVars, hexFile, setupVars, seq, i, target_file_ext,
                   cnvpath, logq, run>>

\* return cnvpath, with cnvpath bound
CnvReturn ==
    /\ pc = "loop" /\ i > Len(seq)
    /\ cnvpath # None
    /\ pc' = "returned"
    /\ UNCHANGED <<stages, resolverVars, castVars, hexFile, procDir, setupVars, seq, i, target_file_ext,
                   cnvpath, sendq, logq, steps, run, raised>>

\* return cnvpath, with cnvpath never assigned
CnvReturnUnbound ==
    /\ pc = "loop" /\ i > Len(seq)
    /\ cnvpath = None
    /\ Raise("UnboundLocalError")
    /\ UNCHANGED <<stages, resolverVars, castVars, hexFile, procDir, setupVars, seq, i, target_file_ext,
                   cnvpath, sendq, logq, steps, run>>

ProcessCnvStep ==
    \/ CnvInvalidFunction
    \/ CnvSkipDatCnv
    \/ CnvStepOk
    \/ CnvStepInputMissing
    \/ CnvStepTransformFails
    \/ CnvStepWriteFails
    \/ CnvReturn
    \/ CnvReturnUnbound

NextCnv == ConvertHexToCnv \/ ConvertFails \/ ProcessCnvBegin \/ ProcessCnvStep

InitSpecCnv == InitCnv /\ IdleResolver /\ IdleSetup /\ IdleCast

SpecCnv == InitSpecCnv /\ [][NextCnv]_vars

(***************************************************************************)
(* C1                                                                      *)
(***************************************************************************)
FreshStart == Glob(run.start.files, "cnv") = {}

\* C1: the file the conversion writes is <base>_C.cnv, the file the first
\* non-dat_cnv step of process_cnv opens: after a conversion on a fresh
\* processing directory the first step finds its input.
C1_ConversionFeedsFirstStep ==
    (run.converted /\ FreshStart /\ Len(steps) >= 1) =>
        /\ steps[1].read = ConvertDest
        /\ steps[1].outcome # "input_missing"

(***************************************************************************)
(* C4                                                                      *)
(***************************************************************************)
\* the append codes of the non-dat_cnv steps among the first n of the sequence
RECURSIVE AppendCodes(_, _)
AppendCodes(sq, n) ==
    IF n = 0 THEN <<>>
    ELSE IF sq[n].function = "dat_cnv" THEN AppendCodes(sq, n - 1)
    ELSE Append(AppendCodes(sq, n - 1), sq[n].append)

SuffixAfter(n) == <<"_", "C">> \o AppendCodes(seq, n)

C5_FailedStepStopsThePipeline ==
    \A k \in DOMAIN steps :
        /\ k < Len(steps) => steps[k].outcome = "ok"
        /\ steps[k].outcome = "transform_failed" =>
              /\ pc = "raised" /\ raised = "transform failed"
              /\ procDir.files = steps[k].before
              /\ i = steps[k].index
              /\ \A j \in 1..(k - 1) :
                    [name |-> steps[j].write, is_file |-> TRUE,
                     content |-> Transform(steps[j].function,
                                           ContentOf(steps[j].before, steps[j].read))]
                       \in procDir.files

C5_Witness ==
    /\ Len(steps) = 3
    /\ steps[3].outcome = "transform_failed"
    /\ ~Exists(procDir.files, steps[3].write)
    /\ Exists(procDir.files, steps[2].write)

(***************************************************************************)
(* C6                                                                      *)
(***************************************************************************)
HasInvalidStep == \E k \in DOMAIN seq : seq[k].function \notin allowed_func_names

FirstInvalid == CHOOSE k \in DOMAIN seq :
                    /\ seq[k].function \notin allowed_func_names
                    /\ \A j \in 1..(k - 1) : seq[j].function \in allowed_func_names

\* C6 as claimed: an unrecognized function name at any position makes
\* process_cnv raise before any transform is invoked or any file written.
C6_ValidatesBeforeAnyIO ==
    raised = "ValueError" => steps = <<>>

\* C6 as amended: the name of a step is checked when the loop reaches the step.
\* With an unrecognized name at position k, no transform is invoked and no
\* file is written for step k or a later step, and process_cnv does not return
\* normally; the steps before k run first, and the ValueError is raised at k
\* once they have all succeeded.
C6_ValidatesEachStepWhenReached ==
    HasInvalidStep =>
        /\ pc # "returned"
        /\ \A k \in DOMAIN steps : steps[k].index < FirstInvalid
        /\ raised = "ValueError" =>
              /\ i = FirstInvalid
              /\ Len(steps) = Len(AppendCodes(seq, FirstInvalid - 1))
              /\ \A k \in DOMAIN steps : steps[k].outcome = "ok"

C6_Witness ==
    /\ raised = "ValueError"
    /\ Len(steps) = 2
    /\ i = 3
    /\ Exists(procDir.files, steps[2].write)

Names(files) == {f.name : f \in files}

(***************************************************************************)
(* C7                                                                      *)
(***************************************************************************)
\* C7: a second setup_processing_dir call with the same cast and the same config
\* folder, after a successful first call, does not raise and leaves the
\* processing directory as the first call left it.
C7_SetupIdempotent ==
    (setupCall.called /\ setupCall.repeat) =>
        /\ setupCall.ok
        /\ procDir = setupCall.before

C7_Witness ==
    /\ setupCall.called /\ setupCall.repeat /\ setupCall.ok
    /\ setupCall.config_folder # None
    /\ \E f \in procDir.files : f.name.ext = "xmlcon" /\ f.content = <<"cfg">>
    /\ \E f \in procDir.files : f.name.ext = "psa" /\ f.content = <<"cfg">>

(***************************************************************************)
(* C8                                                                      *)
(***************************************************************************)
\* C8: setup_processing_dir leaves every file that was in the processing
\* directory before the call in place with its contents, whether the call succeeds
\* or fails; an existing .xmlcon is the one returned even when the config
\* folder's descriptor has another name.
C8_SetupNeverOverwrites ==
    setupCall.called =>
        /\ \A f \in setupCall.before.files : f \in procDir.files
        /\ \A f \in Glob(setupCall.before.files, "xmlcon") :
              setupCall.ok => setupCall.xmlcon_file = Some(f.name)

C8_Witness ==
    /\ setupCall.called /\ setupCall.ok /\ setupCall.config_folder # None
    /\ File(<<"Filter">>, "psa", <<"old">>) \in setupCall.before.files
    /\ File(<<"Filter">>, "psa", <<"cfg">>) \in cfgFolder
    /\ File(<<base_file_name>>, "hex", <<"old">>) \in setupCall.before.files
    /\ File(<<"B">>, "xmlcon", <<"old">>) \in setupCall.before.files
    /\ get_xmlcon(cfgFolder).ok /\ get_xmlcon(cfgFolder).path.name.stem # <<"B">>
    /\ File(<<"Filter">>, "psa", <<"old">>) \in procDir.files

(***************************************************************************)
(* C9                                                                      *)
(***************************************************************************)
\* C9: with two or more .xmlcon files in the processing directory the call fails,
\* with or without a config folder, and copies no .xmlcon and no .psa file.
C9_TwoXmlconsAlwaysFail ==
    (setupCall.called /\ Cardinality(Glob(setupCall.before.files, "xmlcon")) >= 2) =>
        /\ ~setupCall.ok
        /\ Glob(procDir.files, "xmlcon") = Glob(setupCall.before.files, "xmlcon")
        /\ Glob(procDir.files, "psa") = Glob(setupCall.before.files, "psa")

C9_Witness ==
    /\ setupCall.called
    /\ Cardinality(Glob(setupCall.before.files, "xmlcon")) >= 2
    /\ setupCall.config_folder # None
    /\ hexFile # None
    /\ \E e \in cfgFolder : e.name.ext = "psa" /\ e.is_file /\ e.name \notin Names(setupCall.before.files)
    /\ get_xmlcon(cfgFolder).ok

(***************************************************************************)
(* C10                                                                     *)
(***************************************************************************)
\* C10: when setup_processing_dir returns normally the processing directory
\* exists, holds the raw capture and exactly one .xmlcon file, and the returned
\* path is that file: the config folder's descriptor when none existed before,
\* the existing one otherwise.
C10_SetupReturnsTheXmlcon ==
    (setupCall.called /\ setupCall.ok) =>
        /\ procDir.exists
        /\ RawHex.name \in Names(procDir.files)
        /\ Cardinality(Glob(procDir.files, "xmlcon")) = 1
        /\ setupCall.xmlcon_file # None
        /\ \A f \in Glob(procDir.files, "xmlcon") : setupCall.xmlcon_file = Some(f.name)
        /\ IF Glob(setupCall.before.files, "xmlcon") = {}
           THEN /\ setupCall.config_folder # None
                /\ \E e \in Glob(cfgFolder, "xmlcon") :
                      e.is_file /\ Glob(procDir.files, "xmlcon") = {e}
           ELSE Glob(procDir.files, "xmlcon") = Glob(setupCall.before.files, "xmlcon")

C10_Witness ==
    /\ setupCall.called /\ setupCall.ok
    /\ ~setupCall.before.exists
    /\ setupCall.xmlcon_file = Some([stem |-> <<"C">>, ext |-> "xmlcon"])
    /\ RawHex \in procDir.files

(***************************************************************************)
(* C2                                                                      *)
(***************************************************************************)
\* the subdirectories whose trailing date parses and is <= cast_date
Qualifying(entries, cast_date) ==
    {f \in Range(entries) : f.is_dir /\ strptime(f.tail8).ok
                             /\ DateLeq(strptime(f.tail8).date, cast_date)}

AllDirsDated(entries) ==
    \A f \in Range(entries) : f.is_dir => strptime(f.tail8).ok

ResolverInCase ==
    /\ resolved.called /\ resolved.serial_number # None /\ resolved.cast_date # None
    /\ snIsDir /\ AllDirsDated(snEntries)

\* C2: get_config_dir returns the qualifying subdirectory with the maximum date,
\* whatever the enumeration order, and fails when no subdirectory qualifies.
C2_ResolverPicksMaximum ==
    ResolverInCase =>
        LET q == Qualifying(snEntries, resolved.cast_date[1])
        IN  IF q = {} THEN ~resolved.result.ok
            ELSE /\ resolved.result.ok
                 /\ resolved.result.folder \in q
                 /\ \A f \in q : f.tail8 <= resolved.result.folder.tail8

(***************************************************************************)
(* C16                                                                     *)
(***************************************************************************)
\* C16: a subdirectory whose last eight name characters are no date is passed
\* over: whenever some subdirectory qualifies, get_config_dir succeeds and
\* returns a qualifying folder, wherever the unparsable one is enumerated.
C16_UnparsableFolderIsSkipped ==
    (/\ resolved.called /\ resolved.serial_number # None /\ resolved.cast_date # None
     /\ snIsDir
     /\ Qualifying(snEntries, resolved.cast_date[1]) # {}) =>
        /\ resolved.result.ok
        /\ resolved.result.folder \in Qualifying(snEntries, resolved.cast_date[1])

(***************************************************************************)
(* C17                                                                     *)
(***************************************************************************)
ValidSequence == \A k \in DOMAIN seq : seq[k].function \in allowed_func_names

\* C17: for every valid processing sequence, also one with no step other than
\* dat_cnv, process_cnv called after the conversion returns normally once the
\* loop is through, and what it returns is the frontier file
\* <base><finalSuffix>.cnv.
C17_ReturnsTheFrontier ==
    (ValidSequence /\ run.converted) =>
        /\ raised # "UnboundLocalError"
        /\ pc = "returned" => cnvpath = Some(CnvName(target_file_ext))


(***************************************************************************)
(* process_hex_file                                                        *)
(* One action per stage; the conversion and the process_cnv loop are the   *)
(* actions above.  Every dated config folder of the serial number holds    *)
(* cfgFolder.                                                              *)
(***************************************************************************)
Finished == pc \in {"idle", "raised", "completed"}

CanCall == Finished /\ Len(ops) < MaxCalls

\* the calls so far, the last one closed with the way it ended
Closed(h) ==
    IF h = <<>> THEN h
    ELSE [h EXCEPT ![Len(h)].result = IF @ = "running" THEN pc ELSE @]

ResetRun ==
    /\ i' = 0
    /\ target_file_ext' = <<>>
    /\ cnvpath' = None
    /\ logq' = None
    /\ steps' = <<>>
    /\ stages' = <<>>
    /\ run' = [converted |-> FALSE, start |-> procDir]

Latitudes == {None, Some(""), Some("-19.2")}

\* (mutant) the latitude is not looked at
PhfPrecondition_nolat(exist_ok, latitude) ==
    IF procDir.exists /\ ~exist_ok THEN "Exception: Processing dir already exists"
    ELSE IF hexFile = None THEN "FileNotFoundError"
    ELSE ""

\* the checks of process_hex_file that come before any side effect, and
\* parse_hex: "" when they all pass, the exception otherwise
PhfPrecondition(exist_ok, latitude) ==
    IF procDir.exists /\ ~exist_ok THEN "Exception: Processing dir already exists"
    ELSE IF latitude = None \/ latitude = Some("") THEN "Exception: latitude is required"
    ELSE IF hexFile = None THEN "FileNotFoundError"
    ELSE ""

\* the call in progress: its arguments, the directory it found, its locals
PhfFrame(latitude, use_audit) ==
    [active |-> TRUE, latitude |-> latitude, audit |-> use_audit, before |-> procDir,
     parsed |-> TRUE, config_folder |-> None, xmlcon_file |-> None]

\* a call that raised in its checks; parse_hex was reached when both checks
\* passed
PhfRejectedFrame(exist_ok, latitude) ==
    [active |-> FALSE, latitude |-> latitude, before |-> procDir,
     parsed |-> PhfPrecondition(exist_ok, latitude) = "FileNotFoundError"]

\* (mutant) the rewrite loop is left out
StageAfter_skip(stage) ==
    CASE stage = "resolve" -> "setup"
      [] stage = "setup"   -> "ready"
      [] stage = "rewrite" -> "ready"

\* the statements of process_hex_file in program order: what follows the
\* config folder lookup, the directory setup and the rewrite loop
StageAfter(stage) ==
    CASE stage = "resolve" -> "setup"
      [] stage = "setup"   -> "rewrite"
      [] stage = "rewrite" -> "ready"

\* process_hex_file is called and raises before it does anything
PhfRejected ==
    /\ CanCall
    /\ \E exist_ok \in BOOLEAN, latitude \in Latitudes :
          /\ PhfPrecondition(exist_ok, latitude) # ""
          /\ raised' = PhfPrecondition(exist_ok, latitude)
          /\ phf' = PhfRejectedFrame(exist_ok, latitude)
    /\ pc' = "raised"
    /\ sendq' = Some(<<>>)
    /\ ops' = Append(Closed(ops), [op |-> "process_hex_file", result |-> "running"])
    /\ ResetRun
    /\ UNCHANGED <<resolverVars, hexFile, procDir, setupVars, seq, hexInfo, approvers, db, apprDir, audit, moveCall>>

\* process_hex_file is called, passes its checks, parses the raw capture and
\* sends hex_info
PhfEnter ==
    /\ CanCall
    /\ \E exist_ok \in BOOLEAN, latitude \in Latitudes, use_audit \in BOOLEAN :
          /\ PhfPrecondition(exist_ok, latitude) = ""
          /\ phf' = PhfFrame(latitude, use_audit)
    /\ raised' = ""
    /\ pc' = "resolve"
    /\ sendq' = Some(<<<<"hex_info", hexInfo.serial_number, hexInfo.cast_date>>>>)
    /\ ops' = Append(Closed(ops), [op |-> "process_hex_file", result |-> "running"])
    /\ ResetRun
    /\ UNCHANGED <<resolverVars, hexFile, procDir, setupVars, seq, hexInfo, approvers, db, apprDir, audit, moveCall>>

\* config_folder = get_config_dir(...), None when it raises
PhfResolve ==
    /\ pc = "resolve"
    /\ LET r == get_config_dir(hexInfo.serial_number, hexInfo.cast_date, snIsDir, snEntries)
       IN  /\ phf' = [phf EXCEPT !.config_folder = IF r.ok THEN Some(r.folder) ELSE None]
           /\ resolved' = [called |-> TRUE, serial_number |-> hexInfo.serial_number,
                           cast_date |-> hexInfo.cast_date, result |-> r]
    /\ pc' = StageAfter("resolve")
    /\ stages' = Append(stages, "resolve")
    /\ UNCHANGED <<snEntries, snIsDir, hexFile, procDir, setupVars, seq, i, target_file_ext,
                   cnvpath, sendq, logq, steps, run, raised, hexInfo, approvers, db, apprDir, audit, moveCall, ops>>

PhfSetupResult ==
    setup_processing_dir(procDir, hexFile,
                         IF phf.config_folder = None THEN None ELSE Some(cfgFolder))

PhfSetupRecord(r) ==
    [called |-> TRUE,
     config_folder |-> IF phf.config_folder = None THEN None ELSE Some(cfgFolder),
     before |-> procDir, ok |-> r.ok, err |-> r.err, xmlcon_file |-> r.xmlcon_file,
     repeat |-> FALSE]

\* xmlcon_file = setup_processing_dir(ctdfile, config_folder) returns
PhfSetup ==
    /\ pc = "setup"
    /\ PhfSetupResult.ok
    /\ procDir' = PhfSetupResult.dir
    /\ setupCall' = PhfSetupRecord(PhfSetupResult)
    /\ phf' = [phf EXCEPT !.xmlcon_file = PhfSetupResult.xmlcon_file]
    /\ pc' = StageAfter("setup")
    /\ stages' = Append(stages, "setup")
    /\ UNCHANGED <<resolverVars, hexFile, cfgFolder, seq, i, target_file_ext, cnvpath,
                   sendq, logq, steps, run, raised, hexInfo, approvers, db, apprDir, audit, moveCall, ops>>

\* setup_processing_dir raises
PhfSetupFails ==
    /\ pc = "setup"
    /\ ~PhfSetupResult.ok
    /\ procDir' = PhfSetupResult.dir
    /\ setupCall' = PhfSetupRecord(PhfSetupResult)
    /\ Raise(PhfSetupResult.err)
    /\ stages' = Append(stages, "setup")
    /\ UNCHANGED <<resolverVars, hexFile, cfgFolder, seq, i, target_file_ext, cnvpath,
                   sendq, logq, steps, run, hexInfo, approvers, db, phf, apprDir, audit, moveCall, ops>>

PsaName(psa_file) == [stem |-> <<psa_file>>, ext |-> "psa"]

\* rewrite_psa_file: the latitude is written into the profile
RewrittenContent(content) ==
    IF content[Len(content)] = "latitude" THEN content ELSE Append(content, "latitude")

\* the loop over the processing sequence that rewrites every psa file; it
\* stops at the first profile that is not in the processing directory
RECURSIVE RewritePsas(_, _, _)
RewritePsas(files, sq, k) ==
    IF k > Len(sq) THEN [ok |-> TRUE, files |-> files]
    ELSE LET name == PsaName(sq[k].psa_file)
         IN  IF ~Exists(files, name) THEN [ok |-> FALSE, files |-> files]
             ELSE RewritePsas(WriteFile(files, name, RewrittenContent(ContentOf(files, name))),
                              sq, k + 1)

PhfRewritePsa ==
    /\ pc = "rewrite"
    /\ RewritePsas(procDir.files, seq, 1).ok
    /\ procDir' = [procDir EXCEPT !.files = RewritePsas(@, seq, 1).files]
    /\ pc' = StageAfter("rewrite")
    /\ stages' = Append(stages, "rewrite")
    /\ UNCHANGED <<resolverVars, hexFile, setupVars, seq, i, target_file_ext, cnvpath,
                   sendq, logq, steps, run, raised, castVars>>

PhfRewriteFails ==
    /\ pc = "rewrite"
    /\ ~RewritePsas(procDir.files, seq, 1).ok
    /\ procDir' = [procDir EXCEPT !.files = RewritePsas(@, seq, 1).files]
    /\ Raise("FileNotFoundError")
    /\ stages' = Append(stages, "rewrite")
    /\ UNCHANGED <<resolverVars, hexFile, setupVars, seq, i, target_file_ext, cnvpath,
                   sendq, logq, steps, run, castVars>>

\* after process_cnv returned: log(ctdfile, cnvpath, sbe.last_command), then
\* audit.flush(), with an audit log
PhfFinish ==
    /\ pc = "returned" /\ phf.active
    /\ phf.audit
    /\ audit' = [audit EXCEPT !.entries = @ \o <<<<"log_step", cnvpath[1]>>, <<"flush">>>>]
    /\ pc' = "completed"
    /\ stages' = Append(stages, "log")
    /\ UNCHANGED <<resolverVars, hexFile, procDir, setupVars, seq, i, target_file_ext,
                   cnvpath, sendq, logq, steps, run, raised, hexInfo, approvers, db, phf, apprDir, moveCall, ops>>

\* the same without an audit log: log is None, and calling it raises
PhfFinishNoAudit ==
    /\ pc = "returned" /\ phf.active
    /\ ~phf.audit
    /\ Raise("TypeError")
    /\ stages' = Append(stages, "log")
    /\ UNCHANGED <<resolverVars, hexFile, procDir, setupVars, seq, i, target_file_ext,
                   cnvpath, sendq, logq, steps, run, castVars>>

(***************************************************************************)
(* move_to_approved_dir                                                    *)
(***************************************************************************)
\* str.strip() on a comment, a sequence of characters
RECURSIVE LStrip(_)
LStrip(c) == IF c # <<>> /\ c[1] = " " THEN LStrip(Tail(c)) ELSE c

RECURSIVE RStrip(_)
RStrip(c) == IF c # <<>> /\ c[Len(c)] = " " THEN RStrip(SubSeq(c, 1, Len(c) - 1)) ELSE c

\* (mutant) the comment is taken as given
Strip_none(c) == c

Strip(c) == RStrip(LStrip(c))

Comments == { <<" ">>, <<" ", "o", "k">> }

CommentName == [stem |-> <<"approve_comment">>, ext |-> "txt"]

\* (mutant) an existing approved directory is not noticed
ApprovedExists_never(appr) == FALSE

\* approved_dir.exists()
ApprovedExists(appr) == appr.exists

\* (mutant) the directory is copied, the processing directory stays
SourceAfterMove_copy(dir) == dir

\* shutil.move(ctdfile.processing_dir, approved_dir): the source is gone
SourceAfterMove(dir) == NoDir

Subdirs == {"raw", "done", "psa", "config"}

\* the suffix of the files that go to a subdirectory
SuffixOf(sub) ==
    CASE sub = "done"   -> "cnv"
      [] sub = "psa"    -> "psa"
      [] sub = "config" -> "xmlcon"
      [] sub = "raw"    -> "hex"

SubdirName(sub) == [stem |-> <<sub>>, ext |-> ""]

\* subdir.mkdir() raises FileExistsError, which is caught: the moved directory
\* already has an entry of that name, here a regular file
Collides(files, sub) == Exists(files, SubdirName(sub))

\* shutil.move(file, dest) of every file with the suffix of sub, with dest a
\* regular file: every move replaces dest, the file moved last remains
Overwritten(files, sub) == Collides(files, sub) /\ Glob(files, SuffixOf(sub)) # {}

\* the files moved last, one for each destination that is a regular file
\* (which file is last is the order of approved_dir.iterdir())
LastMovedTo(files, sub) ==
    IF Overwritten(files, sub) THEN Glob(files, SuffixOf(sub)) ELSE {None}

LastMoved(files) ==
    [raw : LastMovedTo(files, "raw"), done : LastMovedTo(files, "done"),
     psa : LastMovedTo(files, "psa"), config : LastMovedTo(files, "config")]

\* the subdirectories are created and every regular file of the top level is
\* moved by its suffix; files with another suffix stay
Reorganized(files, last) ==
    LET stay == {f \in files : f.name.ext \notin {SuffixOf(sub) : sub \in Subdirs}}
        after(f) == IF \E sub \in Subdirs : f.name = SubdirName(sub) /\ Overwritten(files, sub)
                    THEN [f EXCEPT !.content = last[f.name.stem[1]].content]
                    ELSE f
        into(sub) == IF Collides(files, sub) THEN {} ELSE Glob(files, SuffixOf(sub))
    IN  [exists |-> TRUE,
         top    |-> {after(f) : f \in stay},
         raw    |-> into("raw"),
         done   |-> into("done"),
         psa    |-> into("psa"),
         config |-> into("config")]

\* the orders in which a set of files can be listed
RECURSIVE Listings(_)
Listings(cnv_files) ==
    IF cnv_files = {} THEN {<<>>}
    ELSE UNION {{Append(l, f) : l \in Listings(cnv_files \ {f})} : f \in cnv_files}

\* ctdfile.destination_cnvs after refresh_dirs(): the result files of the
\* approved cast, in the order of the listing; it is read only with an audit
\* log
destination_cnvs(aud, done) == IF aud.configured THEN Listings(done) ELSE {<<>>}

\* len(p.name) of a result file <base><suffix>.cnv, up to a constant
NameLen(name) == Len(name.stem)

\* list.sort(key=len(p.name)) is stable: p goes behind the paths that are no
\* longer than it
RECURSIVE InsertByLen(_, _)
InsertByLen(sorted, p) ==
    IF sorted = <<>> THEN <<p>>
    ELSE IF NameLen(sorted[Len(sorted)].name) <= NameLen(p.name) THEN Append(sorted, p)
    ELSE Append(InsertByLen(SubSeq(sorted, 1, Len(sorted) - 1), p), sorted[Len(sorted)])

\* (mutant) the list is left in the order of the listing
SortByLen_unsorted(cnv_files) == cnv_files

RECURSIVE SortByLen(_)
SortByLen(cnv_files) ==
    IF cnv_files = <<>> THEN <<>>
    ELSE InsertByLen(SortByLen(SubSeq(cnv_files, 1, Len(cnv_files) - 1)),
                     cnv_files[Len(cnv_files)])

MoveResult(ok, err, proc, appr, aud) ==
    [ok |-> ok, err |-> err, proc |-> proc, appr |-> appr, audit |-> aud]

\* move_to_approved_dir(ctdfile, approve_comment); last: the files moved last
\* onto destinations that are regular files; listing: the order in which
\* destination_cnvs lists the result files
move_to_approved_dir(proc, appr, approve_comment, aud, last, listing) ==
    IF ApprovedExists(appr)
    THEN MoveResult(FALSE, "FileExistsError: destination directory", proc, appr, aud)
    ELSE IF ~proc.exists
    THEN MoveResult(FALSE, "FileNotFoundError", proc, appr, aud)
    ELSE LET moved == Reorganized(proc.files, last)
             comment == Strip(approve_comment)
         IN  IF comment # <<>> /\ Exists(moved.top, CommentName)
             THEN MoveResult(FALSE, "FileExistsError: approve_comment.txt",
                             SourceAfterMove(proc), moved, aud)
             ELSE LET final == IF comment = <<>> THEN moved
                               ELSE [moved EXCEPT !.top =
                                        WriteFile(@, CommentName, <<"date">> \o comment)]
                      cnv_files == SortByLen(listing)
                  IN  IF ~aud.configured
                      THEN MoveResult(TRUE, "", SourceAfterMove(proc), final, aud)
                      ELSE IF cnv_files = <<>>
                      THEN MoveResult(FALSE, "IndexError", SourceAfterMove(proc), final, aud)
                      ELSE MoveResult(TRUE, "", SourceAfterMove(proc), final,
                                      [aud EXCEPT !.entries =
                                          Append(@, <<"log_approved",
                                                      cnv_files[Len(cnv_files)].name>>)])

\* a call move_to_approved_dir(ctdfile, approve_comment)
MoveToApprovedDir ==
    /\ CanCall
    /\ \E approve_comment \in Comments, last \in LastMoved(procDir.files) :
       \E listing \in destination_cnvs(audit, Reorganized(procDir.files, last).done) :
          LET r == move_to_approved_dir(procDir, apprDir, approve_comment, audit, last, listing)
          IN  /\ procDir' = r.proc
              /\ apprDir' = r.appr
              /\ audit' = r.audit
              /\ raised' = r.err
              /\ moveCall' = [called |-> TRUE, proc |-> procDir, appr |-> apprDir,
                              audit |-> audit, ok |-> r.ok,
                              approve_comment |-> approve_comment,
                              listed_last |-> IF listing = <<>> \/ ~r.ok \/ ~audit.configured
                                              THEN None
                                              ELSE Some(listing[Len(listing)].name)]
              /\ ops' = Append(Closed(ops), [op |-> "move_to_approved_dir",
                                             result |-> IF r.ok THEN "completed" ELSE "raised"])
    /\ pc' = "idle"
    /\ phf' = NoCall
    /\ stages' = <<>>
    /\ UNCHANGED <<resolverVars, hexFile, setupVars, seq, i, target_file_ext, cnvpath,
                   sendq, logq, steps, run, hexInfo, approvers, db>>

(***************************************************************************)
(* The life of one cast: process_hex_file and move_to_approved_dir, called *)
(* one after the other in any order                                        *)
(***************************************************************************)
\* the processing sequences of the casts: the head of the default sequence,
\* and one with a function that is not allowed
Step(f) == CHOOSE st \in StepPool : st.function = f

CastSeqs ==
    { <<Step("dat_cnv")>>,
      <<Step("dat_cnv"), Step("filter"), Step("align_ctd")>>,
      <<Step("dat_cnv"), Step("filter"), Step("bogus")>> }

CastFolder == [name |-> "cfg_20200101", tail8 |-> 20200101, is_dir |-> TRUE]

\* what parse_hex may find in the header of the raw capture
CastHexInfos ==
    { [serial_number |-> Some("SN1"), cast_date |-> Some(<<2021, 12, 1>>)],
      [serial_number |-> Some("SN1"), cast_date |-> Some(<<2019, 1, 1>>)],
      [serial_number |-> Some("SN1"), cast_date |-> None],
      [serial_number |-> None,        cast_date |-> Some(<<2021, 12, 1>>)] }

AllPsas(content) ==
    {File(<<st.psa_file>>, "psa", content) : st \in StepPool}

\* the config folder: complete, without a descriptor, or without most profiles
CastCfgFolders ==
    { AllPsas(<<"cfg">>) \cup {File(<<"A">>, "xmlcon", <<"cfg">>)},
      AllPsas(<<"cfg">>),
      {File(<<"DatCnv">>, "psa", <<"cfg">>), File(<<"A">>, "xmlcon", <<"cfg">>)} }

\* the processing directory when the first call is made: absent, or left by
\* an earlier run or staged by hand (with one profile only; complete; with
\* a comment file; with a file that has the name of a subdirectory of the
\* approved directory)
CastStagedDirs ==
    { {File(<<base_file_name, "_", "C">>, "cnv", <<"raw", "dat_cnv">>),
       File(<<"B">>, "xmlcon", <<"old">>), File(<<"Filter">>, "psa", <<"old">>)},
      AllPsas(<<"old">>) \cup {File(<<"B">>, "xmlcon", <<"old">>),
                               File(<<base_file_name, "_", "C">>, "cnv", <<"raw", "dat_cnv">>)},
      {File(<<"approve_comment">>, "txt", <<"old">>)},
      {File(<<"done">>, "", <<"notes">>), File(<<"B">>, "xmlcon", <<"old">>),
       File(<<base_file_name, "_", "C">>, "cnv", <<"raw", "dat_cnv">>),
       File(<<base_file_name, "_", "C", "F">>, "cnv", <<"old">>)} }

InitCast ==
    /\ snEntries = <<CastFolder>>
    /\ snIsDir = TRUE
    /\ resolved = NotCalled
    /\ hexFile = Some(RawHex)
    /\ hexInfo \in CastHexInfos
    /\ procDir \in {NoDir} \cup {[exists |-> TRUE, files |-> F] : F \in CastStagedDirs}
    /\ cfgFolder \in CastCfgFolders
    /\ setupCall = NotCalled
    /\ seq \in CastSeqs
    /\ pc = "idle"
    /\ i = 0
    /\ target_file_ext = <<>>
    /\ cnvpath = None
    /\ sendq = None
    /\ logq = None
    /\ steps = <<>>
    /\ run = NoRun
    /\ raised = ""
    /\ stages = <<>>
    /\ phf = NoCall
    /\ apprDir = NoApproved
    /\ audit \in {[configured |-> c, entries |-> <<>>] : c \in BOOLEAN}
    /\ moveCall = NotCalled
    /\ ops = <<>>
    /\ approvers = NotCalled
    /\ db = NotCalled

Next ==
    \/ PhfRejected
    \/ PhfEnter
    \/ PhfResolve
    \/ PhfSetup
    \/ PhfSetupFails
    \/ PhfRewritePsa
    \/ PhfRewriteFails
    \/ ConvertHexToCnv
    \/ ConvertFails
    \/ ProcessCnvBegin
    \/ ProcessCnvStep
    \/ PhfFinish
    \/ PhfFinishNoAudit
    \/ MoveToApprovedDir

Spec == InitCast /\ [][Next]_vars

(***************************************************************************)
(* C3                                                                      *)
(***************************************************************************)
\* C3 as claimed: whatever process_hex_file and move_to_approved_dir calls were
\* made on the cast, the processing and the approved directory never both exist.
C3_NeverBothDirectories == ~(procDir.exists /\ apprDir.exists)

LastOp == Closed(ops)[Len(ops)]

\* a process_hex_file call was made after the cast was approved
ReprocessedAfterApproval ==
    \E a, b \in DOMAIN ops :
        /\ a < b
        /\ ops[a].op = "move_to_approved_dir"
        /\ ops[b].op = "process_hex_file"

\* C3 as amended: move_to_approved_dir moves the processing directory: when it
\* has run with the approved directory absent and the processing directory
\* present, the processing directory is gone and the approved directory
\* exists, so a successful approval never leaves both.  process_hex_file does
\* not look at the approved directory: both directories exist only when
\* process_hex_file was called again after the approval.
C3_ApprovalMovesTheDirectory ==
    /\ (ops # <<>> /\ LastOp.op = "move_to_approved_dir" /\ LastOp.result = "completed") =>
          /\ ~procDir.exists
          /\ apprDir.exists
    /\ (procDir.exists /\ apprDir.exists) => ReprocessedAfterApproval
    /\ apprDir.exists => \E a \in DOMAIN ops : ops[a].op = "move_to_approved_dir"

C3_Witness ==
    /\ ops # <<>> /\ LastOp.op = "move_to_approved_dir" /\ LastOp.result = "completed"
    /\ Len(ops) >= 2 /\ ops[1].op = "process_hex_file"
    /\ ~procDir.exists
    /\ apprDir.done # {} /\ apprDir.raw # {}

(***************************************************************************)
(* C11                                                                     *)
(***************************************************************************)
LastIsMove == ops # <<>> /\ LastOp.op = "move_to_approved_dir"

\* C11: move_to_approved_dir called while the approved directory exists raises
\* FileExistsError and changes neither directory (nor the audit log); so of
\* two calls in a row the second raises when the first succeeded.
C11_ApprovalIsOneShot ==
    /\ (LastIsMove /\ moveCall.appr.exists) =>
          /\ ~moveCall.ok
          /\ raised = "FileExistsError: destination directory"
          /\ procDir = moveCall.proc
          /\ apprDir = moveCall.appr
          /\ audit = moveCall.audit
    /\ \A a \in DOMAIN ops :
          (/\ a > 1
           /\ ops[a].op = "move_to_approved_dir"
           /\ ops[a - 1].op = "move_to_approved_dir"
           /\ ops[a - 1].result = "completed") => ops[a].result = "raised"

C11_Witness ==
    /\ Len(ops) = 2
    /\ ops[1].op = "move_to_approved_dir" /\ ops[1].result = "completed"
    /\ ops[2].op = "move_to_approved_dir" /\ ops[2].result = "raised"
    /\ moveCall.appr.exists /\ moveCall.appr.done # {}
    /\ apprDir = moveCall.appr

(***************************************************************************)
(* C12                                                                     *)
(***************************************************************************)
Places == {"top", "raw", "done", "psa", "config"}

PlaceOf(f) ==
    IF \E sub \in Subdirs : f.name.ext = SuffixOf(sub)
    THEN CHOOSE sub \in Subdirs : f.name.ext = SuffixOf(sub)
    ELSE "top"

\* C12: after a successful move_to_approved_dir every regular file that was at
\* the top level of the processing directory is in exactly one place, the one
\* of its suffix (.cnv in done, .psa in psa, .xmlcon in config, .hex in raw,
\* the others at the top level), unchanged; nothing is lost or duplicated.
C12_FilesPartitionedBySuffix ==
    (LastIsMove /\ LastOp.result = "completed") =>
        \A f \in moveCall.proc.files :
            /\ f \in apprDir[PlaceOf(f)]
            /\ \A p \in Places \ {PlaceOf(f)} : f \notin apprDir[p]

(***************************************************************************)
(* C13                                                                     *)
(***************************************************************************)
\* C13: a process_hex_file call with latitude None or "" raises, and has done
\* nothing before: the processing directory is as it was (not created, no file
\* copied), the raw capture was not parsed or converted, no step ran and no
\* progress event was sent.
C13_NoLatitudeNoSideEffect ==
    ("latitude" \in DOMAIN phf /\ phf.latitude \in {None, Some("")}) =>
        /\ ~phf.active
        /\ pc = "raised" /\ raised # ""
        /\ procDir = phf.before
        /\ ~phf.parsed
        /\ ~run.converted
        /\ steps = <<>> /\ stages = <<>>
        /\ sendq = Some(<<>>)

C13_Witness ==
    /\ "latitude" \in DOMAIN phf /\ phf.latitude = Some("")
    /\ raised = "Exception: latitude is required"
    /\ ~phf.before.exists /\ ~procDir.exists

(***************************************************************************)
(* C14                                                                     *)
(***************************************************************************)
\* C14: when parse_hex leaves the serial number or the cast date None,
\* process_hex_file raises without creating the processing directory: the
\* directory stays as the call found it and the call does not go on.
C14_MissingSerialOrDateIsFatal ==
    (phf.active /\ (hexInfo.serial_number = None \/ hexInfo.cast_date = None)) =>
        /\ procDir = phf.before
        /\ "setup" \notin Range(stages)

(***************************************************************************)
(* C15                                                                     *)
(***************************************************************************)
\* the call in progress has run setup_processing_dir after get_config_dir raised
SetupAfterFailedResolution ==
    phf.active /\ "setup" \in Range(stages) /\ ~resolved.result.ok

\* the directory holds exactly one .xmlcon and at least one .psa
Staged(dir) ==
    /\ dir.exists
    /\ Cardinality(Glob(dir.files, "xmlcon")) = 1
    /\ Glob(dir.files, "psa") # {}

LastAudit == audit.entries[Len(audit.entries)]

\* C18: with an audit log, move_to_approved_dir records a result file of the
\* cast with the longest name, in whatever order the result files are listed.
C18_AuditsLongestName ==
    (LastIsMove /\ LastOp.result = "completed" /\ moveCall.audit.configured) =>
        /\ audit.entries # <<>>
        /\ LastAudit[1] = "log_approved"
        /\ LastAudit[2] \in Names(Glob(moveCall.proc.files, "cnv"))
        /\ \A g \in Glob(moveCall.proc.files, "cnv") : NameLen(g.name) <= NameLen(LastAudit[2])

C18_Witness ==
    /\ LastIsMove /\ LastOp.result = "completed" /\ moveCall.audit.configured
    /\ Cardinality(Glob(moveCall.proc.files, "cnv")) >= 3
    /\ LastAudit = <<"log_approved", CnvName(<<"_", "C", "F", "A">>)>>
    /\ moveCall.listed_last = Some(CnvName(<<"_", "C">>))

(***************************************************************************)
(* C19                                                                     *)
(***************************************************************************)
\* C19: when process_cnv has returned, a process_hex_file call without an
\* audit log completes without an audit call; with an audit log it completes
\* with the flush as its last audit call, after the last step.
C19_AuditOnlyIfEnabled ==
    (phf.active /\ "log" \in Range(stages)) =>
        /\ pc = "completed"
        /\ IF phf.audit
           THEN audit.entries # <<>> /\ LastAudit = <<"flush">>
           ELSE audit.entries = <<>>

(***************************************************************************)
(* C20                                                                     *)
(***************************************************************************)
StageOrder == <<"resolve", "setup", "rewrite", "convert", "process_cnv", "log">>

\* C20: in one process_hex_file call the stages start in the order resolution,
\* setup, rewrite, conversion, process_cnv, each at most once and only when
\* the one before has ended without error (the resolution attempt may end
\* without a folder); the rewrite has gone through every profile of the
\* sequence before the conversion; the steps run in the order of the sequence,
\* none twice, and dat_cnv is not among them.
C20_StagesInOrder ==
    phf.active =>
        /\ Len(stages) <= Len(StageOrder)
        /\ stages = SubSeq(StageOrder, 1, Len(stages))
        /\ "setup" \in Range(stages) => resolved.called
        /\ "rewrite" \in Range(stages) => setupCall.ok
        /\ "convert" \in Range(stages) =>
              \A k \in DOMAIN seq :
                  /\ Exists(procDir.files, PsaName(seq[k].psa_file))
                  /\ ContentOf(procDir.files, PsaName(seq[k].psa_file))
                        = RewrittenContent(ContentOf(procDir.files, PsaName(seq[k].psa_file)))
        /\ "process_cnv" \in Range(stages) => run.converted
        /\ steps # <<>> => "process_cnv" \in Range(stages)
        /\ "log" \in Range(stages) => i = Len(seq) + 1
        /\ \A k \in DOMAIN steps :
              /\ steps[k].function = seq[steps[k].index].function
              /\ steps[k].function # "dat_cnv"
              /\ k > 1 => steps[k - 1].index < steps[k].index /\ steps[k - 1].outcome = "ok"

C20_Witness ==
    /\ phf.active /\ pc = "completed"
    /\ stages = StageOrder
    /\ Len(seq) = 3 /\ Len(steps) = 2

(***************************************************************************)
(* C21                                                                     *)
(***************************************************************************)
\* C21: with a progress queue, the queue holds one event for each step that
\* process_cnv has started (each process_step call), in the order of the
\* calls, put before the transform of the step ran: the event is there also
\* when the transform failed and no output exists.  The event carries the
\* function name, the position of the step in the sequence counted from 1,
\* which is at most the total, and the length of the sequence; a step that
\* was skipped, rejected or not reached has no event.  Without a queue
\* nothing is put.
C21_OneEventPerStep ==
    IF sendq = None THEN TRUE
    ELSE /\ Len(sendq[1]) = Len(steps)
         /\ \A k \in DOMAIN steps :
               /\ sendq[1][k] = <<"process_step", steps[k].function, steps[k].index, Len(seq)>>
               /\ steps[k].index \in 1..Len(seq)
               /\ seq[steps[k].index].function = steps[k].function
               /\ steps[k].function # "dat_cnv"
               /\ k > 1 => steps[k - 1].index < steps[k].index

C21_Witness ==
    /\ sendq # None /\ Len(sendq[1]) = 2
    /\ Len(seq) = 3 /\ seq[1].function = "dat_cnv"
    /\ sendq[1][1][3] = 2 /\ sendq[1][2][3] = 3
    /\ steps[2].outcome = "transform_failed"
    /\ ~Exists(procDir.files, steps[2].write)

(***************************************************************************)
(* C23                                                                     *)
(***************************************************************************)
\* the call got past the test of the approved directory and moved the
\* processing directory
MovedTheDirectory == LastIsMove /\ ~moveCall.appr.exists /\ moveCall.proc.exists

CarriedComment == {f \in moveCall.proc.files : f.name = CommentName}

\* C23: move_to_approved_dir writes approve_comment.txt into the approved
\* directory exactly when the comment is not empty after strip(); a file of
\* that name carried over from the processing directory is never replaced:
\* it stays with its contents, and a call with a non-empty comment raises.
C23_CommentIsWriteOnce ==
    MovedTheDirectory =>
        IF CarriedComment # {}
        THEN /\ \A f \in CarriedComment : f \in apprDir.top
             /\ Strip(moveCall.approve_comment) # <<>> =>
                   /\ ~moveCall.ok
                   /\ raised = "FileExistsError: approve_comment.txt"
        ELSE /\ Exists(apprDir.top, CommentName) <=> Strip(moveCall.approve_comment) # <<>>
             /\ Exists(apprDir.top, CommentName) =>
                   ContentOf(apprDir.top, CommentName) = <<"date", "o", "k">>

C23_Witness ==
    /\ MovedTheDirectory
    /\ CarriedComment # {}
    /\ moveCall.approve_comment = <<" ", "o", "k">>
    /\ ~moveCall.ok
    /\ File(<<"approve_comment">>, "txt", <<"old">>) \in apprDir.top


(***************************************************************************)
(* Two workers approve the same cast: each runs move_to_approved_dir, the  *)
(* file system calls of the two interleave.  shutil.move(src, dst) is one  *)
(* os.rename when source and destination are on the same file system, and  *)
(* copytree(src, real_dst) followed by rmtree(src) when os.rename fails    *)
(* (another file system).  With dst an existing directory, real_dst is     *)
(* dst / basename(src).                                                    *)
(***************************************************************************)
Workers == {"w1", "w2"}

\* approved_dir / <name of the processing directory>: what shutil.move makes
\* when the destination is an existing directory
NestedCopy == NotAFile(<<base_file_name>>, "")

\* the processing directories the workers start from
ApproveStagedDirs ==
    { {RawHex, File(<<base_file_name, "_", "C">>, "cnv", <<"raw", "dat_cnv">>),
       File(<<base_file_name, "_", "C", "F">>, "cnv", <<"raw", "dat_cnv", "filter">>),
       File(<<"Filter">>, "psa", <<"cfg">>), File(<<"A">>, "xmlcon", <<"cfg">>)},
      {RawHex, File(<<base_file_name, "_", "C">>, "cnv", <<"raw", "dat_cnv">>),
       File(<<"approve_comment">>, "txt", <<"old">>)},
      {File(<<base_file_name, "_", "C">>, "cnv", <<"raw", "dat_cnv">>)},
      {RawHex, File(<<"A">>, "xmlcon", <<"cfg">>)} }

At(w, where) == approvers.called /\ approvers.pc[w] = where

Goto(w, where) == approvers' = [approvers EXCEPT !.pc[w] = where]

Fail(w, exc) == approvers' = [approvers EXCEPT !.pc[w] = "error", !.err[w] = exc]

\* if approved_dir.exists(): raise FileExistsError
AfterCheck(exists) == IF exists THEN "error" ELSE "move"

ApproveCheck(w) ==
    /\ At(w, "check")
    /\ IF AfterCheck(ApprovedExists(apprDir)) = "error"
       THEN Fail(w, "FileExistsError: destination directory")
       ELSE Goto(w, "move")
    /\ UNCHANGED <<resolverVars, hexFile, procDir, setupVars, cnvVars,
                   hexInfo, phf, apprDir, audit, moveCall, ops, db>>

\* shutil.move on one file system: os.rename(src, real_dst)
ApproveRename(w) ==
    /\ At(w, "move")
    /\ approvers.same_filesystem
    /\ IF ~procDir.exists
       THEN Fail(w, "FileNotFoundError") /\ UNCHANGED <<procDir, apprDir>>
       ELSE /\ Goto(w, "reorganize")
            /\ procDir' = SourceAfterMove(procDir)
            /\ apprDir' = IF apprDir.exists
                          THEN [apprDir EXCEPT !.top = @ \cup {NestedCopy}]
                          ELSE [NoApproved EXCEPT !.exists = TRUE, !.top = procDir.files]
    /\ UNCHANGED <<resolverVars, hexFile, setupVars, cnvVars,
                   hexInfo, phf, audit, moveCall, ops, db>>

\* shutil.move across file systems, first half: copytree(src, real_dst)
ApproveCopytree(w) ==
    /\ At(w, "move")
    /\ ~approvers.same_filesystem
    /\ IF ~procDir.exists
       THEN Fail(w, "FileNotFoundError") /\ UNCHANGED apprDir
       ELSE IF apprDir.exists /\ NestedCopy \in apprDir.top
       THEN Fail(w, "shutil.Error: destination path already exists") /\ UNCHANGED apprDir
       ELSE /\ Goto(w, "rmtree")
            /\ apprDir' = IF apprDir.exists
                          THEN [apprDir EXCEPT !.top = @ \cup {NestedCopy}]
                          ELSE [NoApproved EXCEPT !.exists = TRUE, !.top = procDir.files]
    /\ UNCHANGED <<resolverVars, hexFile, procDir, setupVars, cnvVars,
                   hexInfo, phf, audit, moveCall, ops, db>>

\* shutil.move across file systems, second half: rmtree(src)
ApproveRmtree(w) ==
    /\ At(w, "rmtree")
    /\ IF ~procDir.exists
       THEN Fail(w, "FileNotFoundError") /\ UNCHANGED procDir
       ELSE Goto(w, "reorganize") /\ procDir' = SourceAfterMove(procDir)
    /\ UNCHANGED <<resolverVars, hexFile, setupVars, cnvVars,
                   hexInfo, phf, apprDir, audit, moveCall, ops, db>>

\* the subdirectories are made and the regular files of the top level are
\* moved into them; what is in the subdirectories already stays
ApproveReorganize(w) ==
    /\ At(w, "reorganize")
    /\ LET files == {f \in apprDir.top : f.is_file}
       IN  \E last \in LastMoved(files) :
              LET moved == Reorganized(files, last)
              IN  apprDir' = [exists |-> TRUE,
                              top    |-> (apprDir.top \ files) \cup moved.top,
                              raw    |-> apprDir.raw \cup moved.raw,
                              done   |-> apprDir.done \cup moved.done,
                              psa    |-> apprDir.psa \cup moved.psa,
                              config |-> apprDir.config \cup moved.config]
    /\ Goto(w, "comment")
    /\ UNCHANGED <<resolverVars, hexFile, procDir, setupVars, cnvVars,
                   hexInfo, phf, audit, moveCall, ops, db>>

\* the comment file is written with mode 'x', then the audit log
ApproveComment(w) ==
    /\ At(w, "comment")
    /\ LET comment == Strip(approvers.approve_comment[w])
       IN  IF comment # <<>> /\ Exists(apprDir.top, CommentName)
           THEN Fail(w, "FileExistsError: approve_comment.txt") /\ UNCHANGED <<apprDir, audit>>
           ELSE /\ apprDir' = IF comment = <<>> THEN apprDir
                              ELSE [apprDir EXCEPT !.top =
                                       WriteFile(@, CommentName, <<"date">> \o comment)]
                /\ \E listing \in destination_cnvs(audit, apprDir.done) :
                      LET cnv_files == SortByLen(listing)
                      IN  IF ~audit.configured
                          THEN Goto(w, "done") /\ UNCHANGED audit
                          ELSE IF cnv_files = <<>>
                          THEN Fail(w, "IndexError") /\ UNCHANGED audit
                          ELSE /\ Goto(w, "done")
                               /\ audit' = [audit EXCEPT !.entries =
                                               Append(@, <<"log_approved",
                                                           cnv_files[Len(cnv_files)].name>>)]
    /\ UNCHANGED <<resolverVars, hexFile, procDir, setupVars, cnvVars,
                   hexInfo, phf, moveCall, ops, db>>

InitSpecApprove ==
    /\ IdleResolver
    /\ hexFile = Some(RawHex)
    /\ procDir \in {[exists |-> TRUE, files |-> F] : F \in ApproveStagedDirs}
    /\ IdleSetup
    /\ IdleCnv
    /\ hexInfo = [serial_number |-> None, cast_date |-> None]
    /\ phf = NoCall
    /\ apprDir = NoApproved
    /\ audit \in {[configured |-> c, entries |-> <<>>] : c \in BOOLEAN}
    /\ moveCall = NotCalled
    /\ ops = <<>>
    /\ \E fs \in BOOLEAN, c \in [Workers -> Comments] :
          approvers = [called |-> TRUE, same_filesystem |-> fs, start |-> procDir,
                       pc |-> [w \in Workers |-> "check"],
                       approve_comment |-> c,
                       err |-> [w \in Workers |-> ""]]
    /\ db = NotCalled

NextApprove ==
    \E w \in Workers :
        \/ ApproveCheck(w)
        \/ ApproveRename(w)
        \/ ApproveCopytree(w)
        \/ ApproveRmtree(w)
        \/ ApproveReorganize(w)
        \/ ApproveComment(w)

SpecApprove == InitSpecApprove /\ [][NextApprove]_vars

(***************************************************************************)
(* C22                                                                     *)
(***************************************************************************)
BothEnded == approvers.called /\ \A w \in Workers : approvers.pc[w] \in {"done", "error"}

Succeeded == {w \in Workers : approvers.pc[w] = "done"}

\* every file the processing directory held is in the place of its suffix and
\* nowhere else, and the approved directory holds no second copy of the
\* processing directory
PartitionedOnce ==
    /\ \A f \in approvers.start.files :
          /\ \E g \in apprDir[PlaceOf(f)] : g.name = f.name
          /\ \A p \in Places \ {PlaceOf(f)} : ~ \E g \in apprDir[p] : g.name = f.name
    /\ NestedCopy \notin apprDir.top

\* C22: when two workers call move_to_approved_dir for the same cast and both
\* calls have ended, at most one has succeeded, the other has ended in an
\* error, and the approved directory holds each file of the processing
\* directory exactly once, in the place of its suffix.
C22_ConcurrentApprovalIsSafe ==
    BothEnded =>
        /\ Cardinality(Succeeded) <= 1
        /\ \E w \in Workers : approvers.pc[w] = "error"
        /\ PartitionedOnce

\* what remains true: with the move a single rename the claim holds
C22_SafeWithOneRename ==
    (BothEnded /\ approvers.same_filesystem) =>
        /\ Cardinality(Succeeded) <= 1
        /\ \E w \in Workers : approvers.pc[w] = "error"
        /\ PartitionedOnce


(***************************************************************************)
(* db.OceanDB: the lookup of the CTDData record of a file                  *)
(* A file name is a sequence of pieces, <<"WQN015", "C", "FACLWDB.cnv">>,  *)
(* so that a prefix of a name is a prefix of the sequence; a NULL of the   *)
(* table is None.                                                          *)
(***************************************************************************)
\* the names a column of CTDData may hold: NULL, the raw capture, two names
\* with the processing steps appended, and the raw capture of another cast
NamePool ==
    { None,
      <<base_file_name, ".hex">>,
      <<base_file_name, "C", "FACLWDB.cnv">>,
      <<"wqn015", "c", "f.cnv">>,
      <<base_file_name, "0", ".hex">> }

Latitude(k) == -(10 + k)

\* self.ctd_data: the rows of the table, in the order of the query
Tables ==
    UNION { [1..n -> [Linkfile1 : NamePool, FileName : NamePool]] : n \in 0..MaxRecords }

Upper(piece) ==
    CASE piece = "wqn015" -> "WQN015"
      [] piece = "c"      -> "C"
      [] piece = "f.cnv"  -> "F.CNV"
      [] piece = "FACLWDB.cnv" -> "FACLWDB.CNV"
      [] piece = ".hex"   -> ".HEX"
      [] OTHER            -> piece

Fold(name) == [k \in DOMAIN name |-> Upper(name[k])]

StartsWith(name, prefix) ==
    Len(name) >= Len(prefix) /\ SubSeq(name, 1, Len(prefix)) = prefix

\* Series.str.contains('^' + prefix, case=case_sensitive, regex=True, na=False)
Contains(value, prefix, case_sensitive) ==
    /\ value # None
    /\ IF case_sensitive THEN StartsWith(value, prefix)
       ELSE StartsWith(Fold(value), Fold(prefix))

\* OceanDB.__match_filename: the rows that match in Linkfile1, else the rows
\* that match in FileName; more than one row raises
match_filename(ctd_data, regex_pattern, case_sensitive) ==
    LET ctd_deployment_in_Linkfile1 ==
            {k \in DOMAIN ctd_data : Contains(ctd_data[k].Linkfile1, regex_pattern, case_sensitive)}
        ctd_deployment_in_FileName ==
            {k \in DOMAIN ctd_data : Contains(ctd_data[k].FileName, regex_pattern, case_sensitive)}
    IN  IF ctd_deployment_in_Linkfile1 # {}
        THEN IF Cardinality(ctd_deployment_in_Linkfile1) > 1
             THEN [raised |-> "LookupError", ctd_deployment |-> {}, match_column |-> ""]
             ELSE [raised |-> "", ctd_deployment |-> ctd_deployment_in_Linkfile1,
                   match_column |-> "Linkfile1"]
        ELSE IF ctd_deployment_in_FileName # {}
        THEN IF Cardinality(ctd_deployment_in_FileName) > 1
             THEN [raised |-> "LookupError", ctd_deployment |-> {}, match_column |-> ""]
             ELSE [raised |-> "", ctd_deployment |-> ctd_deployment_in_FileName,
                   match_column |-> "FileName"]
        ELSE [raised |-> "", ctd_deployment |-> {}, match_column |-> ""]

\* base_file_name.endswith(".hex")
EndsWithHex(base) == base # <<>> /\ base[Len(base)] = ".hex"

LookupFails(exc) == [raised |-> exc, rec |-> None]

\* CTDdataRecord(filename=ctd_deployment[match_column].values[0],
\*               lat=ctd_deployment['Latitude'].values[0], ...)
CTDdataRecord(ctd_data, ctd_deployment, match_column) ==
    LET k == CHOOSE r \in ctd_deployment : \A q \in ctd_deployment : r <= q
    IN  [raised |-> "",
         rec |-> Some([row |-> k, filename |-> ctd_data[k][match_column], lat |-> Latitude(k)])]

\* OceanDB.get_ctd_data(base_file_name, case_sensitive).  The second lookup
\* assigns its rows to ctd_data, a name that is not read again: ctd_deployment
\* is still the empty frame of the first lookup when it is tested.
get_ctd_data(ctd_data, base, case_sensitive) ==
    IF EndsWithHex(base) THEN LookupFails("ValueError")
    ELSE LET first == match_filename(ctd_data, base, case_sensitive)
         IN  IF first.raised # "" THEN LookupFails(first.raised)
             ELSE IF first.ctd_deployment # {}
             THEN IF Cardinality(first.ctd_deployment) > 1
                  THEN LookupFails("LookupError")
                  ELSE CTDdataRecord(ctd_data, first.ctd_deployment, first.match_column)
             ELSE LET second == match_filename(ctd_data, Append(base, "C"), case_sensitive)
                      ctd_deployment == first.ctd_deployment
                  IN  IF second.raised # "" THEN LookupFails(second.raised)
                      ELSE IF ctd_deployment = {} THEN LookupFails("LookupError")
                      ELSE IF Cardinality(ctd_deployment) > 1 THEN LookupFails("LookupError")
                      ELSE CTDdataRecord(ctd_data, ctd_deployment, second.match_column)

\* OceanDB.lookup_latitude(base_file_name)
lookup_latitude(ctd_data, base) ==
    LET r == get_ctd_data(ctd_data, base, FALSE)
    IN  IF r.raised # "" THEN [raised |-> r.raised, lat |-> None]
        ELSE [raised |-> "", lat |-> Some(r.rec[1].lat)]

\* the arguments of the calls: the base name, and the name with its extension
BaseNames == { <<base_file_name>>, <<base_file_name, ".hex">> }

\* a call get_ctd_data(base, case_sensitive)
GetCtdData ==
    /\ ~db.called
    /\ \E base \in BaseNames, case_sensitive \in BOOLEAN :
          db' = [db EXCEPT !.called = TRUE, !.op = "get_ctd_data", !.base = base,
                           !.case_sensitive = case_sensitive,
                           !.result = get_ctd_data(db.ctd_data, base, case_sensitive)]
    /\ UNCHANGED <<resolverVars, hexFile, procDir, setupVars, cnvVars,
                   hexInfo, phf, apprDir, audit, moveCall, ops, approvers>>

\* a call lookup_latitude(base)
LookupLatitude ==
    /\ ~db.called
    /\ \E base \in BaseNames :
          db' = [db EXCEPT !.called = TRUE, !.op = "lookup_latitude", !.base = base,
                           !.case_sensitive = FALSE,
                           !.result = lookup_latitude(db.ctd_data, base)]
    /\ UNCHANGED <<resolverVars, hexFile, procDir, setupVars, cnvVars,
                   hexInfo, phf, apprDir, audit, moveCall, ops, approvers>>

InitSpecDb ==
    /\ IdleResolver
    /\ hexFile = None
    /\ procDir = NoDir
    /\ IdleSetup
    /\ IdleCnv
    /\ hexInfo = [serial_number |-> None, cast_date |-> None]
    /\ phf = NoCall
    /\ apprDir = NoApproved
    /\ audit = [configured |-> FALSE, entries |-> <<>>]
    /\ moveCall = NotCalled
    /\ ops = <<>>
    /\ approvers = NotCalled
    /\ \E t \in Tables :
          db = [called |-> FALSE, ctd_data |-> t, op |-> "", base |-> <<>>,
                case_sensitive |-> FALSE, result |-> None]

NextDb == GetCtdData \/ LookupLatitude

SpecDb == InitSpecDb /\ [][NextDb]_vars

(***************************************************************************)
(* C24                                                                     *)
(***************************************************************************)
\* the name is the name of the raw capture, <base>.hex
IsHexFileName(value) ==
    /\ value # None
    /\ IF db.case_sensitive THEN value = Append(db.base, ".hex")
       ELSE Fold(value) = Fold(Append(db.base, ".hex"))

\* the rows with a name that starts with <base>C
Processed ==
    {k \in DOMAIN db.ctd_data :
        \/ Contains(db.ctd_data[k].Linkfile1, Append(db.base, "C"), db.case_sensitive)
        \/ Contains(db.ctd_data[k].FileName, Append(db.base, "C"), db.case_sensitive)}

NoHexFileNameInTable ==
    \A k \in DOMAIN db.ctd_data :
        ~IsHexFileName(db.ctd_data[k].Linkfile1) /\ ~IsHexFileName(db.ctd_data[k].FileName)

ReturnedRow ==
    IF db.result.raised # "" THEN None
    ELSE IF db.op = "get_ctd_data"
         THEN Some([row |-> db.result.rec[1].row, lat |-> db.result.rec[1].lat])
         ELSE Some([row |-> CHOOSE k \in DOMAIN db.ctd_data : Latitude(k) = db.result.lat[1],
                    lat |-> db.result.lat[1]])

\* C24: a lookup for a base name (without .hex) in a table where no Linkfile1
\* and no FileName is the name of the raw capture falls back to the names that
\* start with <base>C: with exactly one such row it returns that row (and
\* lookup_latitude its latitude), and it raises LookupError only with no such
\* row or more than one.
C24_FallsBackToProcessedNames ==
    (db.called /\ ~EndsWithHex(db.base) /\ NoHexFileNameInTable) =>
        /\ Cardinality(Processed) = 1 =>
              /\ ReturnedRow # None
              /\ ReturnedRow[1].row \in Processed
              /\ ReturnedRow[1].lat = Latitude(ReturnedRow[1].row)
        /\ db.result.raised = "LookupError" => Cardinality(Processed) # 1

====
